---- MODULE Spec2Model ----
(***************************************************************************)
(* Model of CControllerMapper (src/src/buttonmapper/ControllerMapper.cpp): *)
(* the observation set, the family-keyed and geometry-keyed controller     *)
(* models, OnAdd (Ingest), AddControllerMap (Observe) and                  *)
(* TransformFeatures (Transform).                                          *)
(***************************************************************************)
EXTENDS Integers, Sequences, FiniteSets, TLC

VARIABLES
    m_observedDevices,  \* std::set of the devices already folded in
    m_familyModels,     \* CJoystickFamily -> CControllerModel (partial map)
    m_geometryModels,   \* CDriverGeometry -> CControllerModel (partial map)
    history,            \* per device, what the button map of its first OnAdd showed
    call,               \* the caller's view of the call that has just returned
    env,                \* which bounded set of callers' inputs this run draws from
    derived,            \* the state the models derive from their counts, where tracked
    threads             \* the OnAdd calls in progress, where calls may interleave

vars == <<m_observedDevices, m_familyModels, m_geometryModels, history, call, env,
          derived, threads>>

\* ------------------------------------------------------------------------
\* Bounds of the model
\* ------------------------------------------------------------------------
NumDevices == 3
MaxFeatures == 3
MaxQuery == 1
MaxPrimitive == 2
NumThreads == 2

\* ------------------------------------------------------------------------
\* Strings: std::string::operator< on the identifiers the model uses
\* ------------------------------------------------------------------------
Lexicon == <<"A", "Accelerate", "Gamepad", "Joystick", "Wheel">>

Rank(s) == CHOOSE i \in 1..Len(Lexicon) : Lexicon[i] = s

StringLess(a, b) == Rank(a) < Rank(b)

\* ------------------------------------------------------------------------
\* Inputs
\* ------------------------------------------------------------------------
\* env = "single": one device, every button map of at most MaxFeatures features
\* that all share one primitive, queries of at most MaxQuery features;
\* env = "group": NumDevices devices, button maps of Gamepad and Wheel with at
\* most one feature each, queries of at most one feature
Devices == 1..NumDevices

DevicesOf(e) == IF e = "single" THEN {1} ELSE IF e = "cache" THEN {1, 2} ELSE Devices

Name(d) == IF d % 4 \in {1, 2} THEN "PadOne" ELSE "PadTwo"
Provider(d) == "linux"
ButtonCount(d) == IF d % 2 = 1 THEN 10 ELSE 12
HatCount(d) == 1
AxisCount(d) == 4

\* CDriverGeometry that leaves out the button count
CDriverGeometryNoButtons(buttons, hats, axes) == <<0, hats, axes>>

\* CJoystickFamily that leaves out the name
CJoystickFamilyNoName(name, provider) == <<"", provider>>

CJoystickFamily(name, provider) == <<name, provider>>
CDriverGeometry(buttons, hats, axes) == <<buttons, hats, axes>>

\* FamilyOf that takes the name of device 1
FamilyOfFirst(d) == CJoystickFamily(Name(1), Provider(d))

FamilyOf(d) == CJoystickFamily(Name(d), Provider(d))
GeometryOf(d) == CDriverGeometry(ButtonCount(d), HatCount(d), AxisCount(d))

\* what a Transform caller may describe: the devices and one that is never added
JoysticksOf(e) ==
    IF e = "single" THEN {1} ELSE IF e = "cache" THEN {1, 2} ELSE 1..(NumDevices + 1)

Controllers == {"Gamepad", "Joystick", "Wheel"}
FeatureNames == {"A", "Accelerate"}

Feature(type, name, primitives) ==
    [type |-> type, name |-> name, primitives |-> primitives]

Scalar(p, n) == Feature("SCALAR", n, <<p>>)

FeatureUniverse == {Scalar(1, "A"), Scalar(1, "Accelerate"), Scalar(2, "A")}

FeatureVectors(n) == UNION {[1..k -> FeatureUniverse] : k \in 0..n}

\* ------------------------------------------------------------------------
\* Maps (std::map): partial functions
\* ------------------------------------------------------------------------
EmptyMap == [x \in {} |-> 0]

Put(m, k, v) == [x \in DOMAIN m \cup {k} |-> IF x = k THEN v ELSE m[x]]

\* Touch with the lookup replaced by an assignment of a fresh value
TouchFresh(m, k, dflt) == Put(m, k, dflt)

\* operator[] of the model registries and of ControllerMap: default-constructs
Touch(m, k, dflt) == IF k \in DOMAIN m THEN m ELSE Put(m, k, dflt)

\* the button maps over the controllers cs with at most n features of the
\* universe in all and at most each features per controller
RECURSIVE MapsOver(_, _, _, _)
MapsOver(cs, n, each, universe) ==
    IF cs = {} THEN {EmptyMap}
    ELSE LET c == CHOOSE x \in cs : TRUE
         IN  UNION {{Put(m, c, v) : m \in MapsOver(cs \ {c}, n - k, each, universe),
                                    v \in [1..k -> universe]} :
                    k \in 0..(IF n < each THEN n ELSE each)}

ButtonMaps ==
    UNION {MapsOver(cs, MaxFeatures, MaxFeatures, {Scalar(1, "A"), Scalar(1, "Accelerate")}) :
           cs \in SUBSET Controllers}

GroupButtonMaps ==
    UNION {MapsOver(cs, Cardinality(cs), 1, FeatureUniverse) : cs \in SUBSET {"Gamepad", "Wheel"}}

\* both controllers present, at most one feature each
CacheButtonMaps ==
    MapsOver({"Gamepad", "Wheel"}, 2, 1, {Scalar(1, "A"), Scalar(1, "Accelerate")})

ButtonMapsOf(e) ==
    IF e = "single" THEN ButtonMaps ELSE IF e = "cache" THEN CacheButtonMaps ELSE GroupButtonMaps

ControllersOf(e) == IF e = "single" THEN Controllers ELSE {"Gamepad", "Wheel"}

\* the controllers a query from fromController may ask for
TargetsOf(e, fromController) ==
    IF e = "cache" THEN ControllersOf(e) \ {fromController} ELSE ControllersOf(e)

QueriesOf(e) ==
    IF e = "single" THEN FeatureVectors(MaxQuery)
    ELSE {<<Scalar(1, "A")>>, <<Scalar(1, "Accelerate")>>}

\* ------------------------------------------------------------------------
\* JoystickFeature accessors (indices into the primitive array)
\* ------------------------------------------------------------------------
Primitive(f) == IF Len(f.primitives) >= 1 THEN f.primitives[1] ELSE 0
Up(f)        == IF Len(f.primitives) >= 1 THEN f.primitives[1] ELSE 0
Down(f)      == IF Len(f.primitives) >= 2 THEN f.primitives[2] ELSE 0
Right(f)     == IF Len(f.primitives) >= 3 THEN f.primitives[3] ELSE 0
Left(f)      == IF Len(f.primitives) >= 4 THEN f.primitives[4] ELSE 0
PositiveX(f) == IF Len(f.primitives) >= 1 THEN f.primitives[1] ELSE 0
PositiveY(f) == IF Len(f.primitives) >= 2 THEN f.primitives[2] ELSE 0
PositiveZ(f) == IF Len(f.primitives) >= 3 THEN f.primitives[3] ELSE 0

\* FeaturesMatch that compares the first primitive, whatever the type
FeaturesMatchFirst(fromFeature, feature) ==
    fromFeature.type = feature.type /\ Primitive(fromFeature) = Primitive(feature)

\* the find_if predicate of AddControllerMap
FeaturesMatch(fromFeature, feature) ==
    IF fromFeature.type = feature.type
    THEN CASE feature.type \in {"SCALAR", "MOTOR"} ->
                  Primitive(fromFeature) = Primitive(feature)
           [] feature.type = "ANALOG_STICK" ->
                  /\ Up(fromFeature) = Up(feature)
                  /\ Down(fromFeature) = Down(feature)
                  /\ Right(fromFeature) = Right(feature)
                  /\ Left(fromFeature) = Left(feature)
           [] feature.type = "ACCELEROMETER" ->
                  /\ PositiveX(fromFeature) = PositiveX(feature)
                  /\ PositiveY(fromFeature) = PositiveY(feature)
                  /\ PositiveZ(fromFeature) = PositiveZ(feature)
           [] OTHER -> FALSE
    ELSE FALSE

\* FindMatch that returns the last match
FindMatchLast(featuresTo, fromFeature, i) ==
    LET S == {j \in i..Len(featuresTo) : FeaturesMatch(fromFeature, featuresTo[j])}
    IN  IF S = {} THEN Len(featuresTo) + 1 ELSE CHOOSE j \in S : \A k \in S : k <= j

\* std::find_if: index of the first element from position i on, or Len + 1 (end)
RECURSIVE FindMatch(_, _, _)
FindMatch(featuresTo, fromFeature, i) ==
    IF i > Len(featuresTo) THEN Len(featuresTo) + 1
    ELSE IF FeaturesMatch(fromFeature, featuresTo[i]) THEN i
    ELSE FindMatch(featuresTo, fromFeature, i + 1)

\* Increment with the count set instead of raised
IncrementOnce(featureMap, item) == Put(featureMap, item, 1)

\* ++featureMap[featureMapItem]
Increment(featureMap, item) ==
    Put(featureMap, item, IF item \in DOMAIN featureMap THEN featureMap[item] + 1 ELSE 1)

\* the loop over featuresFrom; r = [featureMap, bChanged]
RECURSIVE FromFeatureLoop(_, _, _, _)
FromFeatureLoop(r, featuresFrom, featuresTo, i) ==
    IF i > Len(featuresFrom) THEN r
    ELSE LET fromFeature == featuresFrom[i]
             itToFeature == FindMatch(featuresTo, fromFeature, 1)
         IN  IF itToFeature /= Len(featuresTo) + 1
             THEN FromFeatureLoop(
                      [featureMap |-> Increment(r.featureMap,
                                         <<fromFeature.name, featuresTo[itToFeature].name>>),
                       bChanged |-> TRUE],
                      featuresFrom, featuresTo, i + 1)
             ELSE FromFeatureLoop(r, featuresFrom, featuresTo, i + 1)

\* CControllerModel::Reset: drops the state derived from the counts, which the
\* model recomputes on every query; the counts stay
Reset(model) == model

\* AddControllerMap: the model after the call, its return value, whether the
\* assertion held and whether model.Reset() ran
AddControllerMap(model, controllerFrom, featuresFrom, controllerTo, featuresTo) ==
    LET needle == <<controllerFrom, controllerTo>>
        controllerMap == Touch(model, needle, EmptyMap)
        r == FromFeatureLoop([featureMap |-> controllerMap[needle], bChanged |-> FALSE],
                             featuresFrom, featuresTo, 1)
        changed == Put(controllerMap, needle, r.featureMap)
    IN  [model |-> IF r.bChanged THEN Reset(changed) ELSE changed,
         bChanged |-> r.bChanged,
         asserted |-> StringLess(controllerFrom, controllerTo),
         reset |-> r.bChanged]

\* ------------------------------------------------------------------------
\* OnAdd
\* ------------------------------------------------------------------------
\* iteration order of the std::map ButtonMap: its keys, ascending
RECURSIVE SortedSeq(_)
SortedSeq(S) ==
    IF S = {} THEN <<>>
    ELSE LET m == CHOOSE x \in S : \A y \in S \ {x} : StringLess(x, y)
         IN  <<m>> \o SortedSeq(S \ {m})

Observation(which, res, from, to) ==
    [model |-> which, from |-> from, to |-> to,
     bChanged |-> res.bChanged, asserted |-> res.asserted, reset |-> res.reset]

\* Precedes with <= for <
PrecedesOrSame(from, to) == ~StringLess(to, from)

\* the condition of the inner loop: itFrom->first < itTo->first
Precedes(from, to) == StringLess(from, to)

\* the inner loop: itFrom runs from begin() while itFrom->first < itTo->first;
\* s = [familyModel, geometryModel, observations, pastEnd]
RECURSIVE FromLoop(_, _, _, _, _)
FromLoop(s, keys, buttonMap, itTo, itFrom) ==
    IF itFrom > Len(keys) THEN [s EXCEPT !.pastEnd = TRUE]
    ELSE IF Precedes(keys[itFrom], keys[itTo])
    THEN LET f == AddControllerMap(s.familyModel, keys[itFrom], buttonMap[keys[itFrom]],
                                   keys[itTo], buttonMap[keys[itTo]])
             g == AddControllerMap(s.geometryModel, keys[itFrom], buttonMap[keys[itFrom]],
                                   keys[itTo], buttonMap[keys[itTo]])
         IN  FromLoop([familyModel |-> f.model,
                       geometryModel |-> g.model,
                       observations |-> s.observations \o
                           <<Observation("family", f, keys[itFrom], keys[itTo]),
                             Observation("geometry", g, keys[itFrom], keys[itTo])>>,
                       pastEnd |-> s.pastEnd],
                      keys, buttonMap, itTo, itFrom + 1)
    ELSE s

\* ToLoop that stops one entry early
RECURSIVE ToLoopShort(_, _, _, _)
ToLoopShort(s, keys, buttonMap, itTo) ==
    IF itTo >= Len(keys) THEN s
    ELSE ToLoopShort(FromLoop(s, keys, buttonMap, itTo, 1), keys, buttonMap, itTo + 1)

\* the outer loop: itTo runs over the whole button map
RECURSIVE ToLoop(_, _, _, _)
ToLoop(s, keys, buttonMap, itTo) ==
    IF itTo > Len(keys) THEN s
    ELSE ToLoop(FromLoop(s, keys, buttonMap, itTo, 1), keys, buttonMap, itTo + 1)

\* ------------------------------------------------------------------------
\* Derived state of CControllerModel: what a model computed from its counts at
\* a query and keeps until Reset. Slots are <<"family" or "geometry", key of
\* the model, controller pair>>; dropped records the slots a Reset emptied.
\* ------------------------------------------------------------------------
NoDerived == [cache |-> EmptyMap, dropped |-> {}]

Tracked(e) == e = "cache"

\* Invalidate that drops nothing
InvalidateNothing(d, which, key) == d

\* model.Reset() on the model `which` at `key`
Invalidate(d, which, key) ==
    LET gone == {x \in DOMAIN d.cache : x[1] = which /\ x[2] = key}
    IN  [cache |-> [x \in DOMAIN d.cache \ gone |-> d.cache[x]],
         dropped |-> d.dropped \cup gone]

WasReset(observations, which) ==
    \E i \in 1..Len(observations) :
        observations[i].model = which /\ observations[i].reset

\* the Resets of one OnAdd
ResetAll(d, observations, family, geometry) ==
    LET f == IF WasReset(observations, "family")
             THEN Invalidate(d, "family", family) ELSE d
    IN  IF WasReset(observations, "geometry")
        THEN Invalidate(f, "geometry", geometry) ELSE f

\* AlreadyObserved without the lookup
AlreadyObservedNever(driverInfo) == FALSE

\* the gate on m_observedDevices
AlreadyObserved(driverInfo) == driverInfo \in m_observedDevices

\* History of a button map. CorrespondenceKeys: <<A, B, f, g>> with A < B.
CorrespondenceKeys ==
    {k \in Controllers \X Controllers \X FeatureNames \X FeatureNames :
        Rank(k[1]) < Rank(k[2])}

\* number of features named f of controller A whose first equivalent feature in
\* the list of controller B is named g
Matches(buttonMap, A, B, f, g) ==
    IF A \in DOMAIN buttonMap /\ B \in DOMAIN buttonMap
    THEN Cardinality({i \in 1..Len(buttonMap[A]) :
             /\ buttonMap[A][i].name = f
             /\ \E j \in 1..Len(buttonMap[B]) :
                   /\ FeaturesMatch(buttonMap[A][i], buttonMap[B][j])
                   /\ \A k \in 1..(j - 1) : ~FeaturesMatch(buttonMap[A][i], buttonMap[B][k])
                   /\ buttonMap[B][j].name = g})
    ELSE 0

\* controller A has a feature named f and controller B an equivalent one named g
Offers(buttonMap, A, B, f, g) ==
    /\ A \in DOMAIN buttonMap /\ B \in DOMAIN buttonMap
    /\ \E i \in 1..Len(buttonMap[A]), j \in 1..Len(buttonMap[B]) :
          /\ buttonMap[A][i].name = f
          /\ buttonMap[B][j].name = g
          /\ FeaturesMatch(buttonMap[A][i], buttonMap[B][j])

Shown(buttonMap) ==
    [matched |-> [k \in CorrespondenceKeys |-> Matches(buttonMap, k[1], k[2], k[3], k[4])],
     equivalent |-> {k \in CorrespondenceKeys : Offers(buttonMap, k[1], k[2], k[3], k[4])}]

NothingShown == Shown(EmptyMap)

NoCall == [op |-> "none"]

OnAdd(driverInfo, buttonMap) ==
    /\ call = NoCall
    /\ IF ~AlreadyObserved(driverInfo)
       THEN LET family == FamilyOf(driverInfo)
                geometry == GeometryOf(driverInfo)
                familyModels == Touch(m_familyModels, family, EmptyMap)
                geometryModels == Touch(m_geometryModels, geometry, EmptyMap)
                s == ToLoop([familyModel |-> familyModels[family],
                             geometryModel |-> geometryModels[geometry],
                             observations |-> <<>>,
                             pastEnd |-> FALSE],
                            SortedSeq(DOMAIN buttonMap), buttonMap, 1)
            IN  /\ m_observedDevices' = m_observedDevices \cup {driverInfo}
                /\ m_familyModels' = Put(familyModels, family, s.familyModel)
                /\ m_geometryModels' = Put(geometryModels, geometry, s.geometryModel)
                /\ history' = [history EXCEPT ![driverInfo] = Shown(buttonMap)]
                /\ call' = [op |-> "OnAdd", driverInfo |-> driverInfo,
                            controllers |-> DOMAIN buttonMap,
                            repeats |-> Shown(buttonMap) = history[driverInfo],
                            offers |-> Shown(buttonMap).equivalent /= {},
                            skipped |-> FALSE,
                            observations |-> s.observations, pastEnd |-> s.pastEnd]
                /\ derived' = IF Tracked(env)
                              THEN ResetAll(derived, s.observations, family, geometry)
                              ELSE derived
       ELSE /\ UNCHANGED <<m_observedDevices, m_familyModels, m_geometryModels, history,
                          derived>>
            /\ call' = [op |-> "OnAdd", driverInfo |-> driverInfo,
                        controllers |-> DOMAIN buttonMap,
                        repeats |-> Shown(buttonMap) = history[driverInfo],
                        offers |-> Shown(buttonMap).equivalent /= {},
                        skipped |-> TRUE,
                        observations |-> <<>>, pastEnd |-> FALSE]
    /\ UNCHANGED <<env, threads>>

\* ------------------------------------------------------------------------
\* TransformFeatures
\* ------------------------------------------------------------------------
\* operator< of FeatureMapItem: by fromFeature, then by toFeature
ItemLess(a, b) ==
    \/ StringLess(a[1], b[1])
    \/ a[1] = b[1] /\ StringLess(a[2], b[2])

\* iteration order of the std::map FeatureOccurrences
RECURSIVE SortedItems(_)
SortedItems(S) ==
    IF S = {} THEN <<>>
    ELSE LET m == CHOOSE x \in S : \A y \in S \ {x} : ItemLess(x, y)
         IN  <<m>> \o SortedItems(S \ {m})

\* CControllerModel::GetNormalizedFeatures: the stored mapping of the pair,
\* verbatim; nothing for a pair the model does not hold
GetNormalizedFeatures(model, needle, bSwap) ==
    IF needle \in DOMAIN model THEN model[needle] ELSE EmptyMap

\* std::find_if by name: index of the first feature named so, or Len + 1 (end)
RECURSIVE FindName(_, _, _)
FindName(features, fromFeature, i) ==
    IF i > Len(features) THEN Len(features) + 1
    ELSE IF features[i].name = fromFeature THEN i
    ELSE FindName(features, fromFeature, i + 1)

\* SetName that leaves the name
SetNameKeep(feature, name) == feature

SetName(feature, name) == [feature EXCEPT !.name = name]

\* FromName that ignores bSwap
FromNameStored(item, bSwap) == item[1]

\* the name to look up in the input and the name to emit
FromName(item, bSwap) == IF bSwap THEN item[2] ELSE item[1]
ToName(item, bSwap) == IF bSwap THEN item[1] ELSE item[2]

\* the loop over normalizedFeatures, appending to transformedFeatures
RECURSIVE MapLoop(_, _, _, _, _)
MapLoop(transformedFeatures, items, bSwap, features, i) ==
    IF i > Len(items) THEN transformedFeatures
    ELSE LET fromFeature == FromName(items[i], bSwap)
             toFeature == ToName(items[i], bSwap)
             itFrom == FindName(features, fromFeature, 1)
         IN  IF itFrom /= Len(features) + 1
             THEN MapLoop(Append(transformedFeatures, SetName(features[itFrom], toFeature)),
                          items, bSwap, features, i + 1)
             ELSE MapLoop(transformedFeatures, items, bSwap, features, i + 1)

\* ModelLoop that asks the first model only
ModelLoopFirst(transformedFeatures, models, needle, bSwap, features, i) ==
    MapLoop(transformedFeatures,
            SortedItems(DOMAIN GetNormalizedFeatures(models[1], needle, bSwap)),
            bSwap, features, 1)

\* ModelLoop without the break
RECURSIVE ModelLoopUnion(_, _, _, _, _, _)
ModelLoopUnion(transformedFeatures, models, needle, bSwap, features, i) ==
    IF i > Len(models) THEN transformedFeatures
    ELSE ModelLoopUnion(
             MapLoop(transformedFeatures,
                     SortedItems(DOMAIN GetNormalizedFeatures(models[i], needle, bSwap)),
                     bSwap, features, 1),
             models, needle, bSwap, features, i + 1)

\* the loop over { &familyModel, &geometryModel } with its break
RECURSIVE ModelLoop(_, _, _, _, _, _)
ModelLoop(transformedFeatures, models, needle, bSwap, features, i) ==
    IF i > Len(models) THEN transformedFeatures
    ELSE LET normalizedFeatures == GetNormalizedFeatures(models[i], needle, bSwap)
             out == MapLoop(transformedFeatures, SortedItems(DOMAIN normalizedFeatures),
                            bSwap, features, 1)
         IN  IF out /= <<>> THEN out
             ELSE ModelLoop(out, models, needle, bSwap, features, i + 1)

Swap(fromController, toController) == ~StringLess(fromController, toController)

Needle(fromController, toController) ==
    LET bSwap == Swap(fromController, toController)
    IN  <<IF bSwap THEN toController ELSE fromController,
          IF bSwap THEN fromController ELSE toController>>

\* what a query of a model returns: its derived state if it keeps any, else
\* computed from the counts
Answer(d, which, key, model, needle, bSwap) ==
    IF <<which, key, needle>> \in DOMAIN d.cache
    THEN d.cache[<<which, key, needle>>]
    ELSE GetNormalizedFeatures(model, needle, bSwap)

\* the registry as the queries of one TransformFeatures see it
Seen(d, which, registry, key, needle, bSwap) ==
    LET models == Touch(registry, key, EmptyMap)
    IN  Put(models, key,
            Put(models[key], needle, Answer(d, which, key, models[key], needle, bSwap)))

\* the derived state after the queries of one TransformFeatures: the family
\* model is always queried, the geometry model when the family model gave nothing
Filled(d, fm, gm, driverInfo, fromController, toController, features) ==
    LET bSwap == Swap(fromController, toController)
        needle == Needle(fromController, toController)
        family == FamilyOf(driverInfo)
        geometry == GeometryOf(driverInfo)
        fromFamily == Answer(d, "family", family, Touch(fm, family, EmptyMap)[family],
                             needle, bSwap)
        fromGeometry == Answer(d, "geometry", geometry,
                               Touch(gm, geometry, EmptyMap)[geometry], needle, bSwap)
        kept == Put(d.cache, <<"family", family, needle>>, fromFamily)
    IN  [d EXCEPT !.cache =
            IF MapLoop(<<>>, SortedItems(DOMAIN fromFamily), bSwap, features, 1) = <<>>
            THEN Put(kept, <<"geometry", geometry, needle>>, fromGeometry)
            ELSE kept]

\* Transformed with the models of the device assigned, not looked up
TransformedAfresh(fm, gm, driverInfo, fromController, toController, features) ==
    [familyModels |-> Put(fm, FamilyOf(driverInfo), EmptyMap),
     geometryModels |-> Put(gm, GeometryOf(driverInfo), EmptyMap),
     transformedFeatures |-> <<>>]

\* what TransformFeatures does to the registries fm and gm and what it returns;
\* the caller passes an empty transformedFeatures
Transformed(fm, gm, driverInfo, fromController, toController, features) ==
    LET bSwap == Swap(fromController, toController)
        needle == Needle(fromController, toController)
        family == FamilyOf(driverInfo)
        geometry == GeometryOf(driverInfo)
        familyModels == Touch(fm, family, EmptyMap)
        geometryModels == Touch(gm, geometry, EmptyMap)
        models == <<familyModels[family], geometryModels[geometry]>>
    IN  [familyModels |-> familyModels,
         geometryModels |-> geometryModels,
         transformedFeatures |-> ModelLoop(<<>>, models, needle, bSwap, features, 1)]

TransformFeatures(driverInfo, fromController, toController, features) ==
    /\ call = NoCall
    /\ LET r == Transformed(m_familyModels, m_geometryModels, driverInfo,
                            fromController, toController, features)
           bSwap == Swap(fromController, toController)
           needle == Needle(fromController, toController)
           q == IF Tracked(env)
                THEN Transformed(Seen(derived, "family", m_familyModels,
                                      FamilyOf(driverInfo), needle, bSwap),
                                 Seen(derived, "geometry", m_geometryModels,
                                      GeometryOf(driverInfo), needle, bSwap),
                                 driverInfo, fromController, toController, features)
                ELSE r
       IN  /\ m_familyModels' = r.familyModels
           /\ m_geometryModels' = r.geometryModels
           /\ derived' = IF Tracked(env)
                         THEN Filled(derived, m_familyModels, m_geometryModels, driverInfo,
                                     fromController, toController, features)
                         ELSE derived
           /\ call' = [op |-> "TransformFeatures", driverInfo |-> driverInfo,
                       fromController |-> fromController, toController |-> toController,
                       features |-> features,
                       transformedFeatures |-> q.transformedFeatures]
    /\ UNCHANGED <<m_observedDevices, history, env, threads>>

\* the call is over: the caller drops its arguments and its result
Return ==
    /\ call /= NoCall
    /\ call' = NoCall
    /\ UNCHANGED <<m_observedDevices, m_familyModels, m_geometryModels, history, env,
                   derived, threads>>

\* ------------------------------------------------------------------------
\* Specification
\* ------------------------------------------------------------------------
Init ==
    /\ m_observedDevices = {}
    /\ m_familyModels = EmptyMap
    /\ m_geometryModels = EmptyMap
    /\ history = [d \in Devices |-> NothingShown]
    /\ call = NoCall
    /\ env \in {"single", "group"}
    /\ derived = NoDerived
    /\ threads = <<>>

Next ==
    \/ \E driverInfo \in DevicesOf(env), buttonMap \in ButtonMapsOf(env) :
          OnAdd(driverInfo, buttonMap)
    \/ \E driverInfo \in JoysticksOf(env), fromController \in ControllersOf(env),
          features \in QueriesOf(env) :
            \E toController \in TargetsOf(env, fromController) :
                TransformFeatures(driverInfo, fromController, toController, features)
    \/ Return

Spec == Init /\ [][Next]_vars

\* the same operations with the derived state of the models tracked
CacheInit ==
    /\ m_observedDevices = {}
    /\ m_familyModels = EmptyMap
    /\ m_geometryModels = EmptyMap
    /\ history = [d \in Devices |-> NothingShown]
    /\ call = NoCall
    /\ env = "cache"
    /\ derived = NoDerived
    /\ threads = <<>>

CacheSpec == CacheInit /\ [][Next]_vars

\* ------------------------------------------------------------------------
\* The lambda of AddControllerMap and AddControllerMap itself, called alone
\* ------------------------------------------------------------------------
\* JOYSTICK_FEATURE_TYPE values; RELPOINTER is one the switch has no case for
FeatureTypes == {"SCALAR", "MOTOR", "ANALOG_STICK", "ACCELEROMETER", "RELPOINTER"}

\* number of primitives the comparison of a type reads
PrimitiveCount(type) ==
    CASE type = "ANALOG_STICK" -> 4
      [] type = "ACCELEROMETER" -> 3
      [] OTHER -> 1

TypedFeatures ==
    UNION {{Feature(t, n, p) : n \in FeatureNames,
                               p \in [1..PrimitiveCount(t) -> 1..MaxPrimitive]} :
           t \in FeatureTypes}

\* models AddControllerMap may be given: none of the pair, the pair with and
\* without counts, another pair
GivenModels ==
    {EmptyMap,
     Put(EmptyMap, <<"Gamepad", "Wheel">>, EmptyMap),
     Put(EmptyMap, <<"Gamepad", "Wheel">>, Put(EmptyMap, <<"A", "Accelerate">>, 1)),
     Put(EmptyMap, <<"Gamepad", "Joystick">>, Put(EmptyMap, <<"A", "A">>, 2))}

\* one evaluation of the lambda
Equivalent(fromFeature, feature) ==
    /\ call = NoCall
    /\ call' = [op |-> "Equivalent", fromFeature |-> fromFeature, feature |-> feature,
                result |-> FeaturesMatch(fromFeature, feature)]
    /\ UNCHANGED <<m_observedDevices, m_familyModels, m_geometryModels, history, env,
                   derived, threads>>

\* one call of AddControllerMap for the pair (Gamepad, Wheel)
Observe(model, featuresFrom, featuresTo) ==
    /\ call = NoCall
    /\ LET r == AddControllerMap(model, "Gamepad", featuresFrom, "Wheel", featuresTo)
       IN  call' = [op |-> "AddControllerMap", before |-> model,
                    featuresFrom |-> featuresFrom, featuresTo |-> featuresTo,
                    after |-> r.model, bChanged |-> r.bChanged, reset |-> r.reset]
    /\ UNCHANGED <<m_observedDevices, m_familyModels, m_geometryModels, history, env,
                   derived, threads>>

UnitInit ==
    /\ m_observedDevices = {}
    /\ m_familyModels = EmptyMap
    /\ m_geometryModels = EmptyMap
    /\ history = [d \in Devices |-> NothingShown]
    /\ call = NoCall
    /\ env = "unit"
    /\ derived = NoDerived
    /\ threads = <<>>

UnitNext ==
    \/ /\ call = NoCall
       /\ \E fromFeature \in TypedFeatures, feature \in TypedFeatures :
             Equivalent(fromFeature, feature)
    \/ /\ call = NoCall
       /\ \E model \in GivenModels, featuresFrom \in FeatureVectors(MaxFeatures),
             featuresTo \in FeatureVectors(MaxFeatures) :
               Observe(model, featuresFrom, featuresTo)
    \/ Return

UnitSpec == UnitInit /\ [][UnitNext]_vars

\* ------------------------------------------------------------------------
\* OnAdd called from several threads: the statements of one call as steps
\* that interleave with those of the others (env = "race"), or run under a
\* mutex the host holds for the whole call (env = "mutex"). Unsynchronized
\* access to the set and the maps is a data race: beside the outcome in which
\* the conflicting updates apply one after the other, an update may be lost
\* (it is applied to the model as the thread found it at its lookup).
\* ------------------------------------------------------------------------
Threads == 1..NumThreads

\* the button map of the end-to-end scenario
RaceButtonMap ==
    Put(Put(EmptyMap, "Gamepad", <<Scalar(1, "A")>>), "Wheel", <<Scalar(1, "Accelerate")>>)

Idle == [pc |-> "idle", driverInfo |-> 0, found |-> FALSE,
         seen |-> [familyModel |-> EmptyMap, geometryModel |-> EmptyMap]]

InFlight(t) == threads[t].pc \in {"insert", "lookup", "update"}

\* the host's mutex: a call starts when no other call is in progress
Free(t) == env = "mutex" => \A u \in Threads \ {t} : ~InFlight(u)

\* m_observedDevices.find(driverInfo) == m_observedDevices.end()
Find(t, driverInfo) ==
    /\ threads[t].pc = "idle"
    /\ Free(t)
    /\ threads' = [threads EXCEPT ![t] =
            [@ EXCEPT !.driverInfo = driverInfo,
                      !.found = AlreadyObserved(driverInfo),
                      !.pc = IF AlreadyObserved(driverInfo) THEN "done" ELSE "insert"]]
    /\ UNCHANGED <<m_observedDevices, m_familyModels, m_geometryModels, history, call,
                   env, derived>>

\* m_observedDevices.insert(driverInfo)
Insert(t) ==
    /\ threads[t].pc = "insert"
    /\ m_observedDevices' = m_observedDevices \cup {threads[t].driverInfo}
    /\ threads' = [threads EXCEPT ![t].pc = "lookup"]
    /\ UNCHANGED <<m_familyModels, m_geometryModels, history, call, env, derived>>

\* familyModel = m_familyModels[family]; geometryModel = m_geometryModels[geometry]
Lookup(t) ==
    /\ threads[t].pc = "lookup"
    /\ LET family == FamilyOf(threads[t].driverInfo)
           geometry == GeometryOf(threads[t].driverInfo)
           familyModels == Touch(m_familyModels, family, EmptyMap)
           geometryModels == Touch(m_geometryModels, geometry, EmptyMap)
       IN  /\ m_familyModels' = familyModels
           /\ m_geometryModels' = geometryModels
           /\ threads' = [threads EXCEPT ![t] =
                   [@ EXCEPT !.pc = "update",
                             !.seen = [familyModel |-> familyModels[family],
                                       geometryModel |-> geometryModels[geometry]]]]
    /\ UNCHANGED <<m_observedDevices, history, call, env, derived>>

\* the loops of OnAdd over the button map
Update(t) ==
    /\ threads[t].pc = "update"
    /\ LET family == FamilyOf(threads[t].driverInfo)
           geometry == GeometryOf(threads[t].driverInfo)
           raced == env = "race" /\ \E u \in Threads \ {t} : InFlight(u)
       IN  \E lost \in IF raced THEN {FALSE, TRUE} ELSE {FALSE} :
             LET s == ToLoop([familyModel |-> IF lost THEN threads[t].seen.familyModel
                                              ELSE m_familyModels[family],
                              geometryModel |-> IF lost THEN threads[t].seen.geometryModel
                                                ELSE m_geometryModels[geometry],
                              observations |-> <<>>,
                              pastEnd |-> FALSE],
                             SortedSeq(DOMAIN RaceButtonMap), RaceButtonMap, 1)
             IN  /\ m_familyModels' = Put(m_familyModels, family, s.familyModel)
                 /\ m_geometryModels' = Put(m_geometryModels, geometry, s.geometryModel)
    /\ threads' = [threads EXCEPT ![t].pc = "done"]
    /\ UNCHANGED <<m_observedDevices, history, call, env, derived>>

RaceInit ==
    /\ m_observedDevices = {}
    /\ m_familyModels = EmptyMap
    /\ m_geometryModels = EmptyMap
    /\ history = [d \in Devices |-> NothingShown]
    /\ call = NoCall
    /\ env \in {"race", "mutex"}
    /\ derived = NoDerived
    /\ threads = [t \in Threads |-> Idle]

RaceNext ==
    \E t \in Threads :
        \/ \E driverInfo \in {1, 2} : Find(t, driverInfo)
        \/ Insert(t)
        \/ Lookup(t)
        \/ Update(t)

RaceSpec == RaceInit /\ [][RaceNext]_vars


\* ------------------------------------------------------------------------
\* Properties
\* ------------------------------------------------------------------------
SameFamily(d, q) == Name(d) = Name(q) /\ Provider(d) = Provider(q)

SameGeometry(d, q) ==
    /\ ButtonCount(d) = ButtonCount(q)
    /\ HatCount(d) = HatCount(q)
    /\ AxisCount(d) = AxisCount(q)

ModelAt(registry, key) == IF key \in DOMAIN registry THEN registry[key] ELSE EmptyMap

Occurrences(model, pair) == IF pair \in DOMAIN model THEN model[pair] ELSE EmptyMap

CountIn(model, k) ==
    LET occ == Occurrences(model, <<k[1], k[2]>>)
    IN  IF <<k[3], k[4]>> \in DOMAIN occ THEN occ[<<k[3], k[4]>>] ELSE 0

FamilyModelOf(d) == ModelAt(m_familyModels, <<Name(d), Provider(d)>>)

GeometryModelOf(d) ==
    ModelAt(m_geometryModels, <<ButtonCount(d), HatCount(d), AxisCount(d)>>)

Names(features) == {features[i].name : i \in 1..Len(features)}

Renamed(x, g) == [type |-> x.type, name |-> g, primitives |-> x.primitives]

InSeq(x, seq) == \E i \in 1..Len(seq) : seq[i] = x

FirstNamed(features, f) ==
    features[CHOOSE i \in 1..Len(features) :
                 features[i].name = f /\ \A j \in 1..(i - 1) : features[j].name /= f]

RECURSIVE SumOver(_, _)
SumOver(f, S) ==
    IF S = {} THEN 0
    ELSE LET x == CHOOSE y \in S : TRUE IN f[x] + SumOver(f, S \ {x})

Lower(a, b) == IF Rank(a) <= Rank(b) THEN a ELSE b
Higher(a, b) == IF Rank(a) <= Rank(b) THEN b ELSE a

Transforming == call.op = "TransformFeatures"
Adding == call.op = "OnAdd" /\ ~call.skipped

\* the canonical pair of the call and its stored correspondences, per model
CallPair == <<Lower(call.fromController, call.toController),
              Higher(call.fromController, call.toController)>>
CallSwapped == Rank(call.fromController) >= Rank(call.toController)
Source(item) == IF CallSwapped THEN item[2] ELSE item[1]
Target(item) == IF CallSwapped THEN item[1] ELSE item[2]
FamilyItems == DOMAIN Occurrences(FamilyModelOf(call.driverInfo), CallPair)
GeometryItems == DOMAIN Occurrences(GeometryModelOf(call.driverInfo), CallPair)

\* what one model yields for the call
DerivedFrom(model) ==
    MapLoop(<<>>, SortedItems(DOMAIN Occurrences(model, CallPair)),
            CallSwapped, call.features, 1)
FamilyDerived == DerivedFrom(FamilyModelOf(call.driverInfo))
GeometryDerived == DerivedFrom(GeometryModelOf(call.driverInfo))

\* C1: every controller pair stored in a family model or a geometry model has
\* from < to, and every call of AddControllerMap that OnAdd makes satisfies
\* controllerFrom < controllerTo (the assertion holds).
C1_CanonicalOrder ==
    /\ \A K \in DOMAIN m_familyModels : \A p \in DOMAIN m_familyModels[K] :
          Rank(p[1]) < Rank(p[2])
    /\ \A K \in DOMAIN m_geometryModels : \A p \in DOMAIN m_geometryModels[K] :
          Rank(p[1]) < Rank(p[2])
    /\ call.op = "OnAdd" =>
          \A i \in 1..Len(call.observations) :
              /\ call.observations[i].asserted
              /\ Rank(call.observations[i].from) < Rank(call.observations[i].to)

C1_Witness ==
    /\ Adding
    /\ call.controllers = Controllers
    /\ DOMAIN FamilyModelOf(call.driverInfo) =
           {<<"Gamepad", "Joystick">>, <<"Gamepad", "Wheel">>, <<"Joystick", "Wheel">>}

\* C2: an OnAdd of a device that is already observed, whatever its button map,
\* changes no model, no pair entry, no count and the observation set, and calls
\* neither AddControllerMap nor Reset.
C2_RepeatChangesNothing ==
    [][(call'.op = "OnAdd" /\ call'.driverInfo \in m_observedDevices) =>
          /\ m_familyModels' = m_familyModels
          /\ m_geometryModels' = m_geometryModels
          /\ m_observedDevices' = m_observedDevices
          /\ call'.observations = <<>>]_vars

C2_Witness ==
    /\ call.op = "OnAdd" /\ call.skipped
    /\ ~call.repeats /\ call.offers
    /\ history[call.driverInfo].equivalent /= {}

\* C3 as stated: after every OnAdd, first or repeated, when every observed
\* device of a family (of a geometry) matched a feature named f of A to a
\* feature named g of B, the count of (f, g) under (A, B) in that model is the
\* number of those devices.
C3_CountIsDevices ==
    call.op = "OnAdd" => \A d0 \in Devices, k \in CorrespondenceKeys :
        LET Fs == {d \in m_observedDevices : SameFamily(d, d0)}
            Gs == {d \in m_observedDevices : SameGeometry(d, d0)}
        IN  /\ (Fs /= {} /\ \A d \in Fs : history[d].matched[k] >= 1)
                  => CountIn(FamilyModelOf(d0), k) = Cardinality(Fs)
            /\ (Gs /= {} /\ \A d \in Gs : history[d].matched[k] >= 1)
                  => CountIn(GeometryModelOf(d0), k) = Cardinality(Gs)

\* C3, amended: after every OnAdd, first or repeated, the count of (f, g) under
\* (A, B) in a family (geometry) model is the number of features named f of A that are matched to a feature named
\* g of B, summed over the first button maps of the observed devices of that
\* family (geometry); it is N when each of N devices has one such feature.
C3_CountIsMatches ==
    call.op = "OnAdd" => \A d0 \in Devices, k \in CorrespondenceKeys :
        LET Fs == {d \in m_observedDevices : SameFamily(d, d0)}
            Gs == {d \in m_observedDevices : SameGeometry(d, d0)}
        IN  /\ CountIn(FamilyModelOf(d0), k) =
                   SumOver([d \in Fs |-> history[d].matched[k]], Fs)
            /\ CountIn(GeometryModelOf(d0), k) =
                   SumOver([d \in Gs |-> history[d].matched[k]], Gs)

C3_Witness ==
    call.op = "OnAdd" /\ \E k \in CorrespondenceKeys : \E d1, d2, d3 \in m_observedDevices :
        /\ d1 /= d2 /\ SameFamily(d1, d2)
        /\ d1 /= d3 /\ SameGeometry(d1, d3)
        /\ \A d \in {d1, d2, d3} : history[d].matched[k] = 1
        /\ CountIn(FamilyModelOf(d1), k) = 2
        /\ CountIn(GeometryModelOf(d1), k) = 2

\* C4: in every step, every model, pair entry and correspondence entry that is
\* stored stays stored, and no count decreases or becomes zero.
Kept(old, new) ==
    \A K \in DOMAIN old :
        /\ K \in DOMAIN new
        /\ \A p \in DOMAIN old[K] :
              /\ p \in DOMAIN new[K]
              /\ \A item \in DOMAIN old[K][p] :
                    /\ item \in DOMAIN new[K][p]
                    /\ new[K][p][item] >= old[K][p][item]
                    /\ new[K][p][item] >= 1

C4_CountsNeverDecrease ==
    [][Kept(m_familyModels, m_familyModels') /\ Kept(m_geometryModels, m_geometryModels')]_vars

C4_Witness ==
    /\ Adding
    /\ \E d \in m_observedDevices \ {call.driverInfo} : SameFamily(d, call.driverInfo)
    /\ \E k \in CorrespondenceKeys :
          /\ history[call.driverInfo].matched[k] = 1
          /\ CountIn(FamilyModelOf(call.driverInfo), k) = 2

\* C5 as stated: after OnAdd(D, map) where map gives A a feature named f and B
\* (A < B) an equivalent feature named g, TransformFeatures(D, A, B, features)
\* with a feature named f in features returns a copy of it named g.
C5_EquivalentIsReturned ==
    (Transforming /\ call.driverInfo \in m_observedDevices) =>
        \A k \in history[call.driverInfo].equivalent :
            (k[1] = call.fromController /\ k[2] = call.toController
             /\ k[3] \in Names(call.features))
            => \E i \in 1..Len(call.features) :
                  /\ call.features[i].name = k[3]
                  /\ InSeq(Renamed(call.features[i], k[4]), call.transformedFeatures)

\* C5, amended: after the first OnAdd(D, map) in which a feature named f of A
\* has as its first equivalent feature of B (A < B) one named g,
\* TransformFeatures(D, A, B, features) with a feature named f in features
\* returns a copy of the first such feature, named g, type and primitives
\* unchanged; when D is the only observed device of its family and (f, g) the
\* only correspondence its map showed for (A, B), the result for [x], x named
\* f, is exactly [x named g].
C5_MatchedIsReturned ==
    (Transforming /\ call.driverInfo \in m_observedDevices) =>
        \A k \in CorrespondenceKeys :
            (k[1] = call.fromController /\ k[2] = call.toController
             /\ history[call.driverInfo].matched[k] >= 1
             /\ k[3] \in Names(call.features))
            => /\ InSeq(Renamed(FirstNamed(call.features, k[3]), k[4]),
                        call.transformedFeatures)
               /\ ( /\ \A d \in m_observedDevices :
                          SameFamily(d, call.driverInfo) => d = call.driverInfo
                    /\ \A k2 \in CorrespondenceKeys :
                          (k2[1] = k[1] /\ k2[2] = k[2] /\ k2 /= k)
                          => history[call.driverInfo].matched[k2] = 0
                    /\ Len(call.features) = 1 )
                  => call.transformedFeatures = <<Renamed(call.features[1], k[4])>>

C5_Witness ==
    /\ Transforming
    /\ call.driverInfo \in m_observedDevices
    /\ history[call.driverInfo].matched[<<"Gamepad", "Wheel", "A", "Accelerate">>] = 1
    /\ call.fromController = "Gamepad" /\ call.toController = "Wheel"
    /\ call.features = <<Scalar(1, "A")>>
    /\ call.transformedFeatures = <<Scalar(1, "Accelerate")>>

\* the result of TransformFeatures in the opposite direction on the result
BackResult ==
    Transformed(m_familyModels, m_geometryModels, call.driverInfo,
                call.toController, call.fromController,
                call.transformedFeatures).transformedFeatures

\* C6 as stated: TransformFeatures(dev, A, B, [x]) that returns something,
\* followed by TransformFeatures(dev, B, A, result), returns the name of x.
C6_RoundTripNames ==
    (Transforming /\ call.fromController /= call.toController
     /\ Len(call.features) = 1 /\ call.transformedFeatures /= <<>>)
    => Names(BackResult) = Names(call.features)

\* C6, amended: when the family model of the device holds correspondences of
\* the pair for names of the input, TransformFeatures(dev, A, B, features)
\* followed by TransformFeatures(dev, B, A, result) returns all those names,
\* in either order of A and B; it returns only those names when no two stored
\* correspondences of the pair share their target name; and when the model
\* stores one correspondence (f, g) for the pair, [x] with x named f yields
\* [x named g], which yields [x].
C6_RoundTripFamily ==
    (Transforming /\ call.fromController /= call.toController) =>
        LET covered == Names(call.features) \cap {Source(item) : item \in FamilyItems}
        IN  covered /= {} =>
              /\ covered \subseteq Names(BackResult)
              /\ (\A i, j \in FamilyItems : Target(i) = Target(j) => i = j)
                    => Names(BackResult) = covered
              /\ (Cardinality(FamilyItems) = 1 /\ Len(call.features) = 1) =>
                    /\ \A item \in FamilyItems :
                          call.transformedFeatures =
                              <<Renamed(call.features[1], Target(item))>>
                    /\ BackResult = call.features

C6_Witness ==
    /\ Transforming
    /\ call.fromController = "Wheel" /\ call.toController = "Gamepad"
    /\ FamilyItems = {<<"A", "Accelerate">>}
    /\ call.features = <<Scalar(1, "Accelerate")>>
    /\ call.transformedFeatures = <<Scalar(1, "A")>>
    /\ BackResult = <<Scalar(1, "Accelerate")>>

\* C7: the result of TransformFeatures is what the family model of the device
\* yields when that is not empty, and otherwise what its geometry model yields.
C7_FirstNonEmptyWins ==
    Transforming =>
        call.transformedFeatures =
            IF FamilyDerived /= <<>> THEN FamilyDerived ELSE GeometryDerived

C7_Witness ==
    /\ Transforming
    /\ CallPair \notin DOMAIN FamilyModelOf(call.driverInfo)
    /\ GeometryDerived /= <<>>
    /\ call.transformedFeatures = GeometryDerived

\* C8 as stated: when the family model holds a correspondence of the pair, the
\* result holds nothing of the geometry model: it is what the family model yields.
C8_FamilyEntryStopsFallback ==
    (Transforming /\ FamilyItems /= {}) => call.transformedFeatures = FamilyDerived

\* C8, amended: when the family model yields at least one feature for the
\* queried features, the result is exactly what it yields and every feature of
\* the result bears the target name of a family correspondence; a family entry
\* that matches none of the queried features does not stop the fallback: the
\* result is then what the geometry model yields.
C8_FamilyResultStopsFallback ==
    Transforming =>
        /\ FamilyDerived /= <<>> =>
              /\ call.transformedFeatures = FamilyDerived
              /\ \A i \in 1..Len(call.transformedFeatures) :
                    \E item \in FamilyItems :
                        /\ Source(item) \in Names(call.features)
                        /\ call.transformedFeatures[i].name = Target(item)
        /\ (FamilyItems /= {} /\ FamilyDerived = <<>>) =>
              call.transformedFeatures = GeometryDerived

C8_Witness ==
    /\ Transforming
    /\ FamilyDerived /= <<>>
    /\ GeometryDerived /= FamilyDerived
    /\ call.transformedFeatures = FamilyDerived

\* C9: TransformFeatures returns an empty sequence when no observed device of
\* the family or of the geometry of the queried device showed a correspondence
\* of the pair, and when neither model holds one (the models may not exist
\* before the call).
C9_NeverObservedIsEmpty ==
    Transforming =>
        /\ (\A d \in m_observedDevices :
               (SameFamily(d, call.driverInfo) \/ SameGeometry(d, call.driverInfo))
               => \A k \in CorrespondenceKeys :
                     (k[1] = CallPair[1] /\ k[2] = CallPair[2])
                     => history[d].matched[k] = 0)
              => call.transformedFeatures = <<>>
        /\ (FamilyItems = {} /\ GeometryItems = {}) => call.transformedFeatures = <<>>

C9_Witness ==
    /\ Transforming
    /\ call.features /= <<>>
    /\ call.fromController /= call.toController
    /\ \E d \in m_observedDevices : \E k \in CorrespondenceKeys :
          /\ k[1] = CallPair[1] /\ k[2] = CallPair[2]
          /\ history[d].matched[k] >= 1
          /\ k[3] \in Names(call.features) \/ k[4] \in Names(call.features)
    /\ \A d \in m_observedDevices :
          ~SameFamily(d, call.driverInfo) /\ ~SameGeometry(d, call.driverInfo)
    /\ call.transformedFeatures = <<>>

\* C10: a first OnAdd of a button map with N controllers calls AddControllerMap
\* on the family model and on the geometry model once for each of the
\* N (N - 1) / 2 pairs of its controllers with from < to, and for no other
\* pair, and its inner loop ends inside the button map.
C10_AllPairsOnce ==
    Adding =>
        LET pairs == {p \in call.controllers \X call.controllers : Rank(p[1]) < Rank(p[2])}
            n == Cardinality(call.controllers)
            CallsOn(which) ==
                {i \in 1..Len(call.observations) : call.observations[i].model = which}
        IN  /\ ~call.pastEnd
            /\ 2 * Cardinality(pairs) = n * (n - 1)
            /\ \A which \in {"family", "geometry"} :
                  /\ {<<call.observations[i].from, call.observations[i].to>> :
                          i \in CallsOn(which)} = pairs
                  /\ Cardinality(CallsOn(which)) = Cardinality(pairs)
            /\ Len(call.observations) = 2 * Cardinality(pairs)

C10_Witness ==
    /\ Adding
    /\ call.controllers = Controllers
    /\ Len(call.observations) = 6
    /\ ~call.pastEnd

\* the calls of AddControllerMap that one OnAdd made on one model
CallsOf(observations, which) ==
    SelectSeq(observations, LAMBDA o : o.model = which)

Stripped(observations) ==
    [i \in 1..Len(observations) |->
        [from |-> observations[i].from, to |-> observations[i].to,
         bChanged |-> observations[i].bChanged]]

HasCounts(model) == \E p \in DOMAIN model : model[p] /= EmptyMap

\* C11: a first OnAdd of a device changes no family model but the one at the
\* device's family key and no geometry model but the one at its geometry key
\* (which it creates if absent), makes the same AddControllerMap calls with the
\* same outcomes on both, and raises every count by the same amount in both.
C11_OnlyOwnModels ==
    [][(call'.op = "OnAdd" /\ ~call'.skipped) =>
          LET d == call'.driverInfo
              F == <<Name(d), Provider(d)>>
              G == <<ButtonCount(d), HatCount(d), AxisCount(d)>>
          IN  /\ DOMAIN m_familyModels' = DOMAIN m_familyModels \cup {F}
              /\ DOMAIN m_geometryModels' = DOMAIN m_geometryModels \cup {G}
              /\ \A K \in DOMAIN m_familyModels \ {F} :
                    m_familyModels'[K] = m_familyModels[K]
              /\ \A K \in DOMAIN m_geometryModels \ {G} :
                    m_geometryModels'[K] = m_geometryModels[K]
              /\ Stripped(CallsOf(call'.observations, "family")) =
                    Stripped(CallsOf(call'.observations, "geometry"))
              /\ \A k \in CorrespondenceKeys :
                    CountIn(m_familyModels'[F], k) - CountIn(ModelAt(m_familyModels, F), k) =
                    CountIn(m_geometryModels'[G], k) - CountIn(ModelAt(m_geometryModels, G), k)
    ]_vars

C11_Witness ==
    /\ Adding
    /\ \E k \in CorrespondenceKeys : history[call.driverInfo].matched[k] >= 1
    /\ HasCounts(FamilyModelOf(call.driverInfo))
    /\ \E K \in DOMAIN m_familyModels :
          K /= <<Name(call.driverInfo), Provider(call.driverInfo)>>
          /\ HasCounts(m_familyModels[K])
    /\ \E K \in DOMAIN m_geometryModels :
          K /= <<ButtonCount(call.driverInfo), HatCount(call.driverInfo),
                 AxisCount(call.driverInfo)>>
          /\ HasCounts(m_geometryModels[K])

\* equivalence of two features as the data model defines it
KnownTypes == {"SCALAR", "MOTOR", "ANALOG_STICK", "ACCELEROMETER"}

SameInput(a, b) ==
    /\ a.type = b.type
    /\ a.type \in KnownTypes
    /\ a.primitives = b.primitives

\* C12: the lambda returns true exactly for two features of the same type, one
\* of SCALAR, MOTOR, ANALOG_STICK and ACCELEROMETER, with equal primitives
\* (one, one, four and three of them); so it is false for different types, false
\* for any other type even on identical features, and the names play no part.
C12_EquivalentIsSameInput ==
    call.op = "Equivalent" =>
        /\ call.result = SameInput(call.fromFeature, call.feature)
        /\ call.fromFeature.type /= call.feature.type => ~call.result
        /\ call.fromFeature.type \notin KnownTypes => ~call.result

C12_Witness ==
    /\ call.op = "Equivalent"
    /\ call.fromFeature.type = "ANALOG_STICK"
    /\ call.fromFeature.name /= call.feature.name
    /\ call.fromFeature.primitives = <<1, 2, 1, 2>>
    /\ call.result

\* what one AddControllerMap call did to the counts of its pair
PairBefore == Occurrences(call.before, <<"Gamepad", "Wheel">>)
PairAfter == Occurrences(call.after, <<"Gamepad", "Wheel">>)
CountOf(occurrences, item) == IF item \in DOMAIN occurrences THEN occurrences[item] ELSE 0
Raised == {item \in DOMAIN PairAfter : PairAfter[item] > CountOf(PairBefore, item)}

\* C13 as stated: AddControllerMap returns true and calls Reset exactly when it
\* raised a count; when it raised none it returns false and the model, its
\* controller-pair entries and its counts, is as it was before the call.
C13_UnmatchedLeavesModel ==
    call.op = "AddControllerMap" =>
        /\ call.bChanged = (Raised /= {})
        /\ call.reset = call.bChanged
        /\ ~call.bChanged => call.after = call.before

\* the part of C13 that holds: the return value and the Reset follow the
\* increments, and a call that raised no count changed no count and no
\* correspondence entry, of its pair or of any other
C13_UnmatchedLeavesCounts ==
    call.op = "AddControllerMap" =>
        /\ call.bChanged = (Raised /= {})
        /\ call.reset = call.bChanged
        /\ ~call.bChanged =>
              /\ PairAfter = PairBefore
              /\ \A p \in DOMAIN call.before : call.after[p] = call.before[p]

\* a call that matched nothing on a model without the pair: the pair is there after
C13_EntryCreated ==
    /\ call.op = "AddControllerMap"
    /\ ~call.bChanged
    /\ <<"Gamepad", "Wheel">> \notin DOMAIN call.before
    /\ <<"Gamepad", "Wheel">> \in DOMAIN call.after
    /\ call.featuresFrom /= <<>>

\* the first feature of featuresTo that is the same input as featuresFrom[i]
HasMatch(i) == \E j \in 1..Len(call.featuresTo) : SameInput(call.featuresFrom[i], call.featuresTo[j])

FirstMatch(i) ==
    CHOOSE j \in 1..Len(call.featuresTo) :
        /\ SameInput(call.featuresFrom[i], call.featuresTo[j])
        /\ \A k \in 1..(j - 1) : ~SameInput(call.featuresFrom[i], call.featuresTo[k])

\* the from-features that one correspondence item counts
CountedBy(item) ==
    {i \in 1..Len(call.featuresFrom) :
        /\ call.featuresFrom[i].name = item[1]
        /\ HasMatch(i)
        /\ call.featuresTo[FirstMatch(i)].name = item[2]}

RECURSIVE SumOf(_)
SumOf(occurrences) ==
    IF DOMAIN occurrences = {} THEN 0
    ELSE LET item == CHOOSE x \in DOMAIN occurrences : TRUE
         IN  occurrences[item] +
             SumOf([x \in DOMAIN occurrences \ {item} |-> occurrences[x]])

\* C15: one AddControllerMap call raises the count of (f, g) by the number of
\* from-features named f whose first equivalent to-feature is named g, so
\* each from-feature raises one count by one if it has an equivalent
\* to-feature and none otherwise, and the counts of later equivalent
\* to-features are not raised.
C15_FirstMatchCounted ==
    call.op = "AddControllerMap" =>
        /\ \A item \in FeatureNames \X FeatureNames :
              CountOf(PairAfter, item) = CountOf(PairBefore, item) + Cardinality(CountedBy(item))
        /\ DOMAIN PairAfter \subseteq FeatureNames \X FeatureNames
        /\ SumOf(PairAfter) - SumOf(PairBefore) =
              Cardinality({i \in 1..Len(call.featuresFrom) : HasMatch(i)})
        /\ SumOf(PairAfter) - SumOf(PairBefore) <= Len(call.featuresFrom)

C15_Witness ==
    /\ call.op = "AddControllerMap"
    /\ call.before = EmptyMap
    /\ call.featuresFrom = <<Scalar(1, "A"), Scalar(2, "A")>>
    /\ call.featuresTo = <<Scalar(1, "A"), Scalar(1, "Accelerate")>>
    /\ PairAfter = Put(EmptyMap, <<"A", "A">>, 1)

\* the model a slot of the derived state belongs to
ModelOfSlot(slot) ==
    IF slot[1] = "family" THEN ModelAt(m_familyModels, slot[2])
    ELSE ModelAt(m_geometryModels, slot[2])

\* C14: with the derived state of the models tracked, whatever a model keeps
\* for a controller pair is what its counts give now; every TransformFeatures
\* returns what the counts as they stand give (family first, geometry when
\* that is empty); and every AddControllerMap call of an OnAdd that raised a
\* count called Reset.
C14_DerivedIsCurrent ==
    /\ \A slot \in DOMAIN derived.cache :
          derived.cache[slot] = Occurrences(ModelOfSlot(slot), slot[3])
    /\ Transforming =>
          \/ FamilyDerived /= <<>> /\ call.transformedFeatures = FamilyDerived
          \/ FamilyDerived = <<>> /\ call.transformedFeatures = GeometryDerived
    /\ call.op = "OnAdd" =>
          \A i \in 1..Len(call.observations) :
              call.observations[i].reset = call.observations[i].bChanged

\* a query answered after a Reset emptied what an earlier query had derived
C14_Witness ==
    /\ Transforming
    /\ m_observedDevices = {1, 2}
    /\ <<"family", <<Name(call.driverInfo), Provider(call.driverInfo)>>, CallPair>>
          \in derived.dropped \cap DOMAIN derived.cache
    /\ Cardinality(FamilyItems) = 2
    /\ call.transformedFeatures /= <<>>

\* C16: a TransformFeatures call leaves the observation set as it was and
\* every stored model, with its controller-pair entries and counts, as it
\* was; the registries grow by at most an empty model at the family key and
\* an empty model at the geometry key of the queried device.
C16_TransformLearnsNothing ==
    [][call'.op = "TransformFeatures" =>
          LET d == call'.driverInfo
              F == <<Name(d), Provider(d)>>
              G == <<ButtonCount(d), HatCount(d), AxisCount(d)>>
          IN  /\ m_observedDevices' = m_observedDevices
              /\ history' = history
              /\ \A K \in DOMAIN m_familyModels : m_familyModels'[K] = m_familyModels[K]
              /\ \A K \in DOMAIN m_geometryModels : m_geometryModels'[K] = m_geometryModels[K]
              /\ DOMAIN m_familyModels' = DOMAIN m_familyModels \cup {F}
              /\ DOMAIN m_geometryModels' = DOMAIN m_geometryModels \cup {G}
              /\ F \notin DOMAIN m_familyModels => m_familyModels'[F] = EmptyMap
              /\ G \notin DOMAIN m_geometryModels => m_geometryModels'[G] = EmptyMap
    ]_vars

\* a query for a device of an unobserved family beside a model with counts
C16_Witness ==
    /\ Transforming
    /\ call.transformedFeatures /= <<>>
    /\ HasCounts(GeometryModelOf(call.driverInfo))
    /\ \A d \in m_observedDevices : ~SameFamily(d, call.driverInfo)
    /\ <<Name(call.driverInfo), Provider(call.driverInfo)>> \in DOMAIN m_familyModels
    /\ FamilyModelOf(call.driverInfo) = EmptyMap

\* the correspondences of the queried pair that the first button maps of the
\* devices in D showed for a queried feature name, read in the query direction
SourceName(k) == IF CallSwapped THEN k[4] ELSE k[3]
TargetName(k) == IF CallSwapped THEN k[3] ELSE k[4]

LearnedFrom(D) ==
    {k \in CorrespondenceKeys :
        /\ k[1] = CallPair[1] /\ k[2] = CallPair[2]
        /\ SourceName(k) \in Names(call.features)
        /\ \E d \in D : history[d].matched[k] >= 1}

FamilyPeers == {d \in m_observedDevices : SameFamily(d, call.driverInfo)}
GeometryPeers == {d \in m_observedDevices : SameGeometry(d, call.driverInfo)}
Strangers == m_observedDevices \ (FamilyPeers \cup GeometryPeers)

\* C17: TransformFeatures for a device that was never passed to OnAdd returns
\* renamed copies of the queried features, named by the correspondences that
\* observed devices of its family showed for them, or, when those showed
\* none, by the correspondences observed devices of its geometry showed; what
\* only devices of another family and another geometry showed is not in it.
C17_SharedByGroup ==
    (Transforming /\ call.driverInfo \notin m_observedDevices) =>
        LET shared == IF LearnedFrom(FamilyPeers) /= {} THEN LearnedFrom(FamilyPeers)
                      ELSE LearnedFrom(GeometryPeers)
        IN  /\ Names(call.transformedFeatures) = {TargetName(k) : k \in shared}
            /\ \A i \in 1..Len(call.transformedFeatures) :
                  \E j \in 1..Len(call.features), k \in shared :
                      /\ call.features[j].name = SourceName(k)
                      /\ call.transformedFeatures[i] = Renamed(call.features[j], TargetName(k))

C17_Witness ==
    /\ Transforming
    /\ call.driverInfo \notin m_observedDevices
    /\ FamilyPeers /= {} /\ LearnedFrom(FamilyPeers) = {}
    /\ LearnedFrom(GeometryPeers) /= {}
    /\ \E k \in LearnedFrom(Strangers) :
          TargetName(k) \notin Names(call.transformedFeatures)
    /\ call.transformedFeatures /= <<>>

\* C18: TransformFeatures with fromController = toController = X sets bSwap,
\* looks up the pair (X, X), which no model stores, and returns nothing,
\* whatever the device, the features and the OnAdd calls before.
C18_SameControllerIsEmpty ==
    (Transforming /\ call.fromController = call.toController) =>
        /\ call.transformedFeatures = <<>>
        /\ Swap(call.fromController, call.toController)
        /\ Needle(call.fromController, call.toController) =
              <<call.fromController, call.fromController>>
        /\ \A K \in DOMAIN m_familyModels :
              <<call.fromController, call.fromController>> \notin DOMAIN m_familyModels[K]
        /\ \A K \in DOMAIN m_geometryModels :
              <<call.fromController, call.fromController>> \notin DOMAIN m_geometryModels[K]

\* the query names a controller and a feature the device has learned about
C18_Witness ==
    /\ Transforming
    /\ call.fromController = "Gamepad" /\ call.toController = "Gamepad"
    /\ call.driverInfo \in m_observedDevices
    /\ \E k \in CorrespondenceKeys :
          /\ k[1] = "Gamepad"
          /\ history[call.driverInfo].matched[k] >= 1
          /\ k[3] \in Names(call.features)
    /\ call.transformedFeatures = <<>>

\* the threads whose call passed the gate for device d, and how often the
\* correspondence of RaceButtonMap is counted in the geometry model of d
\* (devices 1 and 2 differ in geometry)
Passed(d) ==
    {t \in Threads : /\ threads[t].pc \in {"insert", "lookup", "update", "done"}
                     /\ threads[t].driverInfo = d
                     /\ ~threads[t].found}

Finished(d) == {t \in Passed(d) : threads[t].pc = "done"}

Counted(d) == CountIn(GeometryModelOf(d), <<"Gamepad", "Wheel", "A", "Accelerate">>)

\* C19: when the OnAdd calls are mutually excluded, at most one call passes
\* the gate for a device and the device is counted at most once; a device is
\* counted twice only when the calls interleave unsynchronized and two of
\* them passed the gate for it, each having tested the set before the other
\* inserted; a device is never counted more often than calls have passed the
\* gate for it and finished.
C19_MutexCountsOnce ==
    \A d \in {1, 2} :
        /\ Counted(d) <= Cardinality(Finished(d))
        /\ env = "mutex" =>
              /\ Cardinality(Passed(d)) <= 1
              /\ Counted(d) <= 1
              /\ Cardinality({t \in Threads : InFlight(t)}) <= 1
        /\ Counted(d) >= 2 => env = "race" /\ Cardinality(Passed(d)) >= 2

\* two interleaved calls for device 1: both passed the gate, counted twice
C19_Witness ==
    /\ env = "race"
    /\ m_observedDevices = {1}
    /\ \A t \in {1, 2} :
          threads[t].pc = "done" /\ threads[t].driverInfo = 1 /\ ~threads[t].found
    /\ Counted(1) = 2
    /\ CountIn(FamilyModelOf(1), <<"Gamepad", "Wheel", "A", "Accelerate">>) = 2

====
